---- MODULE Spec2Model ----
(***************************************************************************)
(* Upstream accumulation of StreamCat (StreamCat_functions.py).             *)
(*                                                                         *)
(* Spec      : the adjacency built by the loop of UpcomDict and the        *)
(*             closure queries children / bastards run on it, one loop     *)
(*             iteration per step.                                         *)
(* FairSpec  : Spec, with a started query running on to its return.        *)
(* SpecAccum : the adjacency, the closure arrays makeNumpyVectors computes *)
(*             from it, and Accumulation (with swapper) applied to a       *)
(*             table and those arrays.                                     *)
(* SpecAdjust: as SpecAccum, with the through-COMIDs among the query ids   *)
(*             and the calls of AdjustCOMs that interVPU makes on the      *)
(*             accumulated table.                                          *)
(* SpecBuild : UpcomDict as a whole (filters, loop, injected edges) and    *)
(*             the ids, universe and arrays makeNumpyVectors derives.      *)
(* SpecDisk  : runs of makeNumpyVectors over two zones, one np.save per    *)
(*             step, interrupted and restarted, and createAccumTable.      *)
(* SpecConnect: interVPU and appendConnectors on the connector file, in    *)
(*             any order of the zones.                                     *)
(***************************************************************************)
EXTENDS Integers, Sequences, FiniteSets, TLC

\* ------------------------------------------------------------------ bounds
\* Rows of the flow table read by the loop of UpcomDict.
MaxRows == 3

\* The COMIDs of the model; 0 is the "no upstream" marker of PlusFlow.
Nodes == {1, 2, 3}

\* ------------------------------------------------------------ small helpers
Range(s) == {s[i] : i \in 1..Len(s)}

\* Every order in which the elements of a set can be listed (list(set), or the
\* iteration of a set: the order is the hash table's, not the program's).
Orderings(S) ==
    {s \in [1..Cardinality(S) -> S] : \A i, j \in 1..Cardinality(S) : s[i] = s[j] => i = j}

\* The elements of a set of integers in ascending order.
RECURSIVE Ascending(_)
Ascending(S) ==
    IF S = {} THEN <<>>
    ELSE LET m == CHOOSE x \in S : \A y \in S : x <= y
         IN <<m>> \o Ascending(S \ {m})

Reverse(s) == [i \in 1..Len(s) |-> s[Len(s) + 1 - i]]

\* chkset = None, or chkset = a set of catchment COMIDs.
NoChk == [given |-> FALSE, ids |-> {}]
Chk(S) == [given |-> TRUE, ids |-> S]
ChkSets == {NoChk} \cup {Chk(S) : S \in SUBSET Nodes}

\* ------------------------------------------------- the adjacency (UpCOMs)
\* tree[key]: a defaultdict(list); reading a key it does not hold inserts the
\* key with an empty list and returns that list.
Lookup(t, k) == IF k \in DOMAIN t THEN t[k] ELSE <<>>
Touch(t, k) == IF k \in DOMAIN t THEN t ELSE [x \in DOMAIN t \cup {k} |-> IF x = k THEN <<>> ELSE t[x]]
Put(t, k, v) == [x \in DOMAIN t \cup {k} |-> IF x = k THEN v ELSE t[x]]

\* One iteration of the loop of UpcomDict over the filtered flow rows.
AddFlowRow(t, TOCOMID, FROMCOMID) ==
    IF FROMCOMID = 0
    THEN Put(t, TOCOMID, <<>>)
    ELSE Put(t, TOCOMID, Append(Lookup(t, TOCOMID), FROMCOMID))

\* ------------------------------------------- children / bastards, one query
\* The state of a query: st = [visited, to_crawl, tree, expanded]; expanded
\* lists the nodes whose parent list was read (tree[current]), in order.

\* node_children - visited for the node at the head of the deque.
ToPush(st) ==
    Range(Lookup(st.tree, Head(st.to_crawl))) \ (st.visited \cup {Head(st.to_crawl)})

\* One iteration of "while to_crawl". extendleft pushes the elements of
\* node_children - visited on the left one by one, in the order the set yields
\* them; ord is the order in which they then stand at the head of the deque.
Expand(st, ord) ==
    LET current == Head(st.to_crawl)
    IN  [visited  |-> st.visited \cup {current},
         to_crawl |-> ord \o Tail(st.to_crawl),
         tree     |-> Touch(st.tree, current),
         expanded |-> Append(st.expanded, current)]

CrawlNoVisitedCheck(st, ord) == Expand(st, ord)

CrawlMarksOnPush(st, ord) ==
    IF Head(st.to_crawl) \in st.visited
    THEN [st EXCEPT !.to_crawl = Tail(st.to_crawl)]
    ELSE [Expand(st, ord) EXCEPT !.visited = @ \cup Range(ord)]

CrawlStep(st, ord) ==
    IF Head(st.to_crawl) \in st.visited
    THEN [st EXCEPT !.to_crawl = Tail(st.to_crawl)]
    ELSE Expand(st, ord)

\* What the function returns once the deque is empty.
ReturnKeepsToken(f, tok, vis, chk) ==
    IF chk.given THEN vis \cap chk.ids ELSE vis

ReturnDropsToken(f, tok, vis, chk) ==
    LET v == vis \ {tok}
    IN  IF chk.given THEN v \cap chk.ids ELSE v

Return(f, tok, vis, chk) ==
    LET v == IF f = "bastards" THEN vis \ {tok} ELSE vis
    IN  IF chk.given THEN v \cap chk.ids ELSE v

\* The whole query as a function of its arguments (the set it returns).
RECURSIVE Crawl(_)
Crawl(st) ==
    IF st.to_crawl = <<>> THEN st
    ELSE Crawl(CrawlStep(st, Ascending(ToPush(st))))

Closure(f, tok, t, chk) ==
    Return(f, tok, Crawl([visited |-> {}, to_crawl |-> <<tok>>, tree |-> t, expanded |-> <<>>]).visited, chk)

children(tok, t, chk) == Closure("children", tok, t, chk)
bastards(tok, t, chk) == Closure("bastards", tok, t, chk)

\* ------------------------------------------------------ table values
\* A table cell is a double: NaN (the missing value), or a finite number kept
\* exactly as a fraction <<n, d>> in lowest terms with d > 0; <<1, 0>> and
\* <<-1, 0>> are the infinities a division by zero gives.
NaN == <<>>
Num(k) == <<k, 1>>
Abs(k) == IF k < 0 THEN -k ELSE k

RECURSIVE GCD(_, _)
GCD(a, b) == IF b = 0 THEN a ELSE GCD(b, a % b)

Frac(n, d) ==
    IF d = 1 THEN <<n, 1>>
    ELSE LET g == GCD(Abs(n), Abs(d))
             sg == IF d < 0 THEN -1 ELSE 1
         IN  <<(sg * n) \div g, (sg * d) \div g>>

FAdd(x, y) == IF x = NaN \/ y = NaN THEN NaN ELSE Frac(x[1] * y[2] + y[1] * x[2], x[2] * y[2])
FMul(x, y) == IF x = NaN \/ y = NaN THEN NaN ELSE Frac(x[1] * y[1], x[2] * y[2])
FDiv(x, y) ==
    IF x = NaN \/ y = NaN THEN NaN
    ELSE IF y[1] = 0 THEN (IF x[1] = 0 THEN NaN ELSE <<(IF x[1] < 0 THEN -1 ELSE 1), 0>>)
    ELSE Frac(x[1] * y[2], x[2] * y[1])

\* np.nan_to_num on a cell.
nan_to_num(x) == IF x = NaN THEN Num(0) ELSE x

\* np.sum of a vector: NaN propagates.
FSum(v) ==
    LET S[i \in 0..Len(v)] == IF i = 0 THEN Num(0) ELSE FAdd(S[i - 1], v[i])
    IN  S[Len(v)]

\* np.nansum of a vector: NaN counts as zero; the empty vector sums to 0.
nansumPropagates(v) == FSum(v)

nansum(v) == FSum([i \in 1..Len(v) |-> nan_to_num(v[i])])

\* np.ma.average(a, weights=w) of unmasked vectors: sum(a * w) / sum(w). A zero
\* or NaN sum of weights gives NaN (stored in z as NaN whether numpy returns
\* nan or the masked constant).
PlainSumAverage(a, w) == FSum(a)

ma_average(a, w) == FDiv(FSum([i \in 1..Len(a) |-> FMul(a[i], w[i])]), FSum(w))

\* --------------------------------------------------------------- swapper
\* np.argsort(coms): the (1-based) positions of coms in ascending order of value.
RECURSIVE argsort_from(_, _)
argsort_from(coms, left) ==
    IF left = {} THEN <<>>
    ELSE LET i == CHOOSE x \in left : \A y \in left : coms[x] < coms[y] \/ (coms[x] = coms[y] /\ x <= y)
         IN  <<i>> \o argsort_from(coms, left \ {i})

argsort(coms) == argsort_from(coms, 1..Len(coms))

\* np.searchsorted(sorted, u) (side left): how many elements are below u, as a
\* 0-based position; 1-based here.
searchsortedRight(srt, u) == 1 + Cardinality({i \in 1..Len(srt) : srt[i] <= u})

searchsorted(srt, u) == 1 + Cardinality({i \in 1..Len(srt) : srt[i] < u})

\* indices = bsort[apos]; an apos past the end of bsort raises IndexError.
swapperNoArgsort(coms, upStream) ==
    LET apos == [j \in 1..Len(upStream) |-> searchsorted(coms, upStream[j])]
    IN  IF \E j \in 1..Len(upStream) : apos[j] > Len(coms)
        THEN [raised |-> TRUE, indices |-> <<>>]
        ELSE [raised |-> FALSE, indices |-> apos]

swapper(coms, upStream) ==
    LET bsort == argsort(coms)
        srt == [i \in 1..Len(coms) |-> coms[bsort[i]]]
        apos == [j \in 1..Len(upStream) |-> searchsorted(srt, upStream[j])]
    IN  IF \E j \in 1..Len(upStream) : apos[j] > Len(coms)
        THEN [raised |-> TRUE, indices |-> <<>>]
        ELSE [raised |-> FALSE, indices |-> [j \in 1..Len(upStream) |-> bsort[apos[j]]]]

\* ----------------------------------------------------------- Accumulation
\* A table is [columns, rows]: the column names and one tuple of cells per
\* row; column 1 is the COMID and column 2 the area (arr.ix[:, 1]).
\* 'PctFull' in col, 'AreaSqKm' in name.
HasPctFull(name) == name \in {"CatPctFull", "WsPctFull", "UpCatPctFull"}
HasAreaSqKm(name) == name \in {"CatAreaSqKm", "WsAreaSqKm", "UpCatAreaSqKm"}
\* x.replace('Cat', 'Ws') and 'Up' + x on the column names.
WsName(name) ==
    CASE name = "CatAreaSqKm" -> "WsAreaSqKm"
      [] name = "CatSum" -> "WsSum"
      [] name = "CatPctFull" -> "WsPctFull"
      [] OTHER -> name
UpName(name) ==
    CASE name = "CatAreaSqKm" -> "UpCatAreaSqKm"
      [] name = "CatSum" -> "UpCatSum"
      [] name = "CatPctFull" -> "UpCatPctFull"
      [] OTHER -> name

NoTable == [raised |-> FALSE, columns |-> <<>>, rows |-> <<>>]
NoAdjust == [mode |-> "none", comid1 |-> 0, comid2 |-> 0]
NoIndex == [t \in {"UpCat", "Ws"} |-> [COMIDs |-> <<>>, lengths |-> <<>>, upStream |-> <<>>]]

\* x before the slice of query i: the sum of the lengths before it.
SliceStartStuck(lengths, i) == 0

RECURSIVE SliceStart(_, _)
SliceStart(lengths, i) == IF i = 1 THEN 0 ELSE SliceStart(lengths, i - 1) + lengths[i - 1]

\* The value of z[i] for column k (2..) and query i.
Reduce(a, k, indices, lengths, i) ==
    LET x == SliceStart(lengths, i)
        d == [j \in 1..lengths[i] |-> a.rows[indices[x + j]][k]]
        ar == [j \in 1..lengths[i] |-> a.rows[indices[x + j]][2]]
    IN  IF HasPctFull(a.columns[k])
        THEN ma_average([j \in 1..lengths[i] |-> nan_to_num(d[j])], ar)
        ELSE nansum(d)

\* outDF.loc[(outDF[area] == 0), outDF.columns[2:]] = np.nan
BlankNoColumn(row, areaCol) == row

BlankZeroArea(row, areaCol) ==
    IF row[areaCol] = Num(0)
    THEN [k \in 1..Len(row) |-> IF k >= 3 THEN NaN ELSE row[k]]
    ELSE row

\* The new column names, by tbl_type.
OutColumns(cols, ttype) ==
    [k \in 1..Len(cols) |->
        IF k = 1 THEN "COMID"
        ELSE IF ttype = "Ws" THEN WsName(cols[k]) ELSE UpName(cols[k])]

\* for name in outDF.columns: if 'AreaSqKm' in name: area = name
AreaColumn(names) ==
    CHOOSE k \in 1..Len(names) :
        /\ HasAreaSqKm(names[k])
        /\ \A j \in 1..Len(names) : HasAreaSqKm(names[j]) => j <= k

\* np.in1d(outT[:,0], coms), for one row: is its COMID among those of the table.
in1dAll(c, coms) == TRUE

in1d(c, coms) == c \in Range(coms)

\* Row i of outT: the COMID of query i and z[i] of every column.
OutRow(a, COMIDs, lengths, indices, i) ==
    [k \in 1..Len(a.columns) |->
        IF k = 1 THEN COMIDs[i] ELSE Reduce(a, k, indices, lengths, i)]

Accumulation(a, COMIDs, lengths, upStream, ttype) ==
    LET coms == [r \in 1..Len(a.rows) |-> a.rows[r][1]]
        sw == swapper(coms, upStream)
    IN  IF sw.raised THEN [raised |-> TRUE, columns |-> <<>>, rows |-> <<>>]
        ELSE
        LET names == OutColumns(a.columns, ttype)
            area == AreaColumn(names)
            \* outT[np.in1d(outT[:,0], coms),:], then the zero-area rows blanked
            F[i \in 0..Len(COMIDs)] ==
                IF i = 0 THEN <<>>
                ELSE IF in1d(COMIDs[i], coms)
                     THEN Append(F[i - 1],
                                 BlankZeroArea(OutRow(a, COMIDs, lengths, sw.indices, i), area))
                     ELSE F[i - 1]
        IN  [raised |-> FALSE, columns |-> names, rows |-> F[Len(COMIDs)]]

\* ------------------------------------------------------------- AdjustCOMs
\* The tables AdjustCOMs works on have the COMID as index (set_index('COMID')):
\* tbl.columns are the columns after the first one here, and tbl.columns[:-1]
\* all of those but the last.
NoTbl2 == [given |-> FALSE, tbl |-> [columns |-> <<>>, rows |-> <<>>]]
Tbl2(t) == [given |-> TRUE, tbl |-> t]

HasRow(t, c) == \E r \in 1..Len(t.rows) : t.rows[r][1] = c
RowAt(t, c) == CHOOSE r \in 1..Len(t.rows) : t.rows[r][1] = c
HasCol(t, name) == \E k \in 2..Len(t.columns) : t.columns[k] = name
ColAt(t, name) == CHOOSE k \in 2..Len(t.columns) : t.columns[k] = name

FSubAdds(x, y) == FAdd(x, y)

FSub(x, y) == FAdd(x, FMul(Num(-1), y))

\* tbl.ix[comid1, idx] - tbl2.ix[comid2, idx] for every idx it goes through;
\* a label that is not there raises KeyError before anything is assigned.
AdjustEveryColumn(tbl, comid1, comid2, tbl2) ==
    LET src == IF tbl2.given THEN tbl2.tbl ELSE tbl
        idxs == 2..Len(tbl.columns)
    IN  IF idxs # {} /\ (\/ ~HasRow(tbl, comid1)
                         \/ ~HasRow(src, comid2)
                         \/ \E k \in idxs : ~HasCol(src, tbl.columns[k]))
        THEN [raised |-> TRUE, columns |-> tbl.columns, rows |-> tbl.rows]
        ELSE [raised |-> FALSE, columns |-> tbl.columns,
              rows |-> [r \in 1..Len(tbl.rows) |->
                          IF tbl.rows[r][1] # comid1 THEN tbl.rows[r]
                          ELSE [k \in 1..Len(tbl.columns) |->
                                  IF k \in idxs
                                  THEN FSub(tbl.rows[r][k],
                                            src.rows[RowAt(src, comid2)][ColAt(src, tbl.columns[k])])
                                  ELSE tbl.rows[r][k]]]]

AdjustCOMs(tbl, comid1, comid2, tbl2) ==
    LET src == IF tbl2.given THEN tbl2.tbl ELSE tbl
        idxs == 2..(Len(tbl.columns) - 1)
    IN  IF idxs # {} /\ (\/ ~HasRow(tbl, comid1)
                         \/ ~HasRow(src, comid2)
                         \/ \E k \in idxs : ~HasCol(src, tbl.columns[k]))
        THEN [raised |-> TRUE, columns |-> tbl.columns, rows |-> tbl.rows]
        ELSE [raised |-> FALSE, columns |-> tbl.columns,
              rows |-> [r \in 1..Len(tbl.rows) |->
                          IF tbl.rows[r][1] # comid1 THEN tbl.rows[r]
                          ELSE [k \in 1..Len(tbl.columns) |->
                                  IF k \in idxs
                                  THEN FSub(tbl.rows[r][k],
                                            src.rows[RowAt(src, comid2)][ColAt(src, tbl.columns[k])])
                                  ELSE tbl.rows[r][k]]]]

\* -------------------------------------------------------------- UpcomDict
\* The ids that occur in the input tables of a zone: catchments (1, 2), the
\* sentinel 0 and a negative id.
BuildIds == {-1, 0, 1, 2}
\* The zone being processed, and another one.
Zones == {"a", "b"}

NoFlowlines == [COMID |-> {}, Coastline |-> {}]

\* One row of the correction table: columns 0 (thruCOMIDs), 1 (FromZone),
\* 2 (ToZone), 3 (AdjustComs), 4 (toCOMIDs), 5 (DropCOMID), 6 (the COMID in the
\* zone the through-COMID flows into, or 0) and removeCOMs.
InterLines ==
    [thruCOMIDs : BuildIds, FromZone : {"b"}, ToZone : Zones, AdjustComs : {0}, toCOMIDs : {0},
     DropCOMID : {0, 1}, inflow : {0, 1}, removeCOMs : {0, 1, 2}]

\* flow[~flow.FROMCOMID.isin(remove)]
KeepSources(rows, remove) == rows

RemoveSources(rows, remove) == SelectSeq(rows, LAMBDA r : r.FROMCOMID \notin remove)

\* The loop over the rows of the filtered flow table.
FillUpCOMs(rows) ==
    LET F[i \in 0..Len(rows)] ==
            IF i = 0 THEN <<>>
            ELSE AddFlowRow(F[i - 1], rows[i].TOCOMID, rows[i].FROMCOMID)
    IN  F[Len(rows)]

\* The loop over interVPUtbl.values: UpCOMs[int(interLine[6])].append(int(interLine[0]))
Inject(t, tbl, zone) ==
    LET F[i \in 0..Len(tbl)] ==
            IF i = 0 THEN t
            ELSE IF tbl[i].inflow > 0 /\ tbl[i].ToZone = zone
                 THEN Put(F[i - 1], tbl[i].inflow,
                          Append(Lookup(F[i - 1], tbl[i].inflow), tbl[i].thruCOMIDs))
                 ELSE F[i - 1]
    IN  F[Len(tbl)]

UpcomDict(zone, flowtable, flowlines, tbl) ==
    LET f1 == SelectSeq(flowtable, LAMBDA r : r.TOCOMID # 0)
        f2 == SelectSeq(f1, LAMBDA r : r.FROMCOMID \notin flowlines.Coastline)
        remove == {tbl[i].removeCOMs : i \in 1..Len(tbl)} \ {0}
        f3 == RemoveSources(f2, remove)
        others == {f3[i].FROMCOMID : i \in 1..Len(f3)} \ (flowlines.COMID \cup {0})
        thru == {tbl[i].thruCOMIDs : i \in 1..Len(tbl)}
        f4 == SelectSeq(f3, LAMBDA r : r.FROMCOMID \notin (others \ thru))
    IN  Inject(FillUpCOMs(f4), tbl, zone)

\* ------------------------------------------- the persisted closure arrays
\* The zones of the run, in the order of the inputs dictionary.
inputs == <<"14", "15">>
\* The COMID that makeNumpyVectors removes from cats when it computes zone '14'
\* (17029298 in the source; here one of the three catchments).
Anomaly == 3
\* allCatCOMs.npy: the catchments of all the zones.
AllCOMs == Nodes
\* The correction table of the run: COMID 2 of zone '15' flows into zone '14'.
RunInterVPUtbl ==
    <<[thruCOMIDs |-> 2, FromZone |-> "15", ToZone |-> "14", AdjustComs |-> 0, toCOMIDs |-> 0,
       DropCOMID |-> 0, inflow |-> 0, removeCOMs |-> 0]>>

\* What the NHD tables of a zone may hold: PlusFlow, NHDFlowline, Catchment.
ZoneInputs(z) ==
    IF z = "14"
    THEN {[flow |-> <<[TOCOMID |-> 1, FROMCOMID |-> 2]>>,
           coast |-> [COMID |-> {1}, Coastline |-> {}], catch |-> <<1>>],
          [flow |-> <<>>,
           coast |-> [COMID |-> {1}, Coastline |-> {}], catch |-> <<1>>]}
    ELSE {[flow |-> <<[TOCOMID |-> 2, FROMCOMID |-> 3]>>,
           coast |-> [COMID |-> {2, 3}, Coastline |-> {}], catch |-> <<2, 3>>],
          [flow |-> <<[TOCOMID |-> 3, FROMCOMID |-> 2]>>,
           coast |-> [COMID |-> {2, 3}, Coastline |-> {}], catch |-> <<2, 3>>]}

\* The files makeNumpyVectors writes for a zone, in the order of its np.save
\* calls: the file and the array saved in it.
SavedFile(z, k) ==
    CASE k = 1 -> <<"bastards", "upStream", z>>
      [] k = 2 -> <<"bastards", "comids", z>>
      [] k = 3 -> <<"bastards", "lengths", z>>
      [] k = 4 -> <<"children", "upStream", z>>
      [] k = 5 -> <<"children", "comids ", z>>
      [] k = 6 -> <<"children", "lengths", z>>

SavedArray(ix, k) ==
    CASE k = 1 -> ix["UpCat"].upStream
      [] k = 2 -> ix["UpCat"].COMIDs
      [] k = 3 -> ix["UpCat"].lengths
      [] k = 4 -> ix["Ws"].upStream
      [] k = 5 -> ix["Ws"].COMIDs
      [] k = 6 -> ix["Ws"].lengths

\* The files createAccumTable loads for a zone and a table type.
LoadedFile(z, ttype, name) ==
    <<IF ttype = "UpCat" THEN "bastards" ELSE "children", name, z>>

NoLoad == [called |-> FALSE, zone |-> "", tbl_type |-> "", raised |-> FALSE, out |-> NoTable]

\* The catchment table createAccumTable is called with.
ZoneTable ==
    [columns |-> <<"COMID", "CatAreaSqKm", "CatSum", "CatPctFull">>,
     rows |-> <<<<1, Num(1), Num(10), Num(100)>>,
                <<2, Num(2), Num(20), Num(50)>>,
                <<3, Num(1), NaN, Num(100)>>>>]

\* createAccumTable(table, directory, zone, tbl_type): np.load raises IOError
\* on a file that is not there.
createAccumTable(table, files, z, ttype) ==
    IF \E name \in {"comids", "lengths", "upStream"} : LoadedFile(z, ttype, name) \notin DOMAIN files
    THEN [called |-> TRUE, zone |-> z, tbl_type |-> ttype, raised |-> TRUE, out |-> NoTable]
    ELSE [called |-> TRUE, zone |-> z, tbl_type |-> ttype, raised |-> FALSE,
          out |-> Accumulation(table, files[LoadedFile(z, ttype, "comids")],
                               files[LoadedFile(z, ttype, "lengths")],
                               files[LoadedFile(z, ttype, "upStream")], ttype)]

\* ----------------------------------------------- the connector file
\* The zones of the connector runs: U flows into D, V into W, D into W.
ConnectZones == {"U", "V", "D"}
ConnectTbl ==
    <<[thruCOMIDs |-> 1, FromZone |-> "U", ToZone |-> "D", AdjustComs |-> 0, toCOMIDs |-> 0,
       DropCOMID |-> 0, inflow |-> 2, removeCOMs |-> 0],
      [thruCOMIDs |-> 3, FromZone |-> "V", ToZone |-> "W", AdjustComs |-> 0, toCOMIDs |-> 0,
       DropCOMID |-> 0, inflow |-> 0, removeCOMs |-> 0],
      [thruCOMIDs |-> 2, FromZone |-> "D", ToZone |-> "W", AdjustComs |-> 0, toCOMIDs |-> 0,
       DropCOMID |-> 1, inflow |-> 0, removeCOMs |-> 0]>>

\* The file names: the connector file and the result file of a zone
\* ('%s_%s.csv' % (Connector[:Connector.find('_connectors')], ToZone)).
Connector == <<"connectors">>
interAlloc(z) == <<"results", z>>

NoAppend == [called |-> FALSE, zone |-> "", raised |-> FALSE, out |-> NoTable]

RowsIn(t, S) == SelectSeq(t.rows, LAMBDA r : r[1] \in S)

\* pd.read_csv(Connector) raises IOError when the file is not there.
appendConnectorsSkipsMissing(cat, files, zone, tbl) ==
    [called |-> TRUE, zone |-> zone, raised |-> FALSE,
     out |-> [raised |-> FALSE, columns |-> cat.columns, rows |-> cat.rows]]

appendConnectors(cat, files, zone, tbl) ==
    IF Connector \notin DOMAIN files
    THEN [called |-> TRUE, zone |-> zone, raised |-> TRUE, out |-> NoTable]
    ELSE LET con == files[Connector]
             conIds == {con.rows[r][1] : r \in 1..Len(con.rows)}
             kept == SelectSeq(cat.rows, LAMBDA r : r[1] \notin conIds)
             toz == SelectSeq(tbl, LAMBDA l : l.ToZone = zone)
             wanted == {toz[i].thruCOMIDs : i \in 1..Len(toz)}
                           \cup ({toz[i].toCOMIDs : i \in 1..Len(toz)} \ {0})
         IN  [called |-> TRUE, zone |-> zone, raised |-> FALSE,
              out |-> [raised |-> FALSE, columns |-> cat.columns,
                       rows |-> kept \o RowsIn(con, wanted)]]

\* The loop of interVPU over the rows of the zone: st is [raised, to, through].
\* The table an AdjustCOMs call has worked on, in the place of the old one.
StoreAdjusted(st, which, r) ==
    [st EXCEPT !.raised = r.raised, ![which] = [columns |-> r.columns, rows |-> r.rows]]

\* if interLine[4] > 0: AdjustCOMs(toVPUs, interLine[4], interLine[0], throughVPUs)
AdjustTo(st, l) ==
    IF l.toCOMIDs > 0 /\ ~st.raised
    THEN StoreAdjusted(st, "to", AdjustCOMs(st.to, l.toCOMIDs, l.thruCOMIDs, Tbl2(st.through)))
    ELSE st

\* if interLine[3] > 0: AdjustCOMs(throughVPUs, interLine[3], interLine[0], None)
AdjustThrough(st, l) ==
    IF l.AdjustComs > 0 /\ ~st.raised
    THEN StoreAdjusted(st, "through", AdjustCOMs(st.through, l.AdjustComs, l.thruCOMIDs, NoTbl2))
    ELSE st

\* if interLine[5] > 0: throughVPUs.drop(interLine[5]), which raises when the
\* label is not in the index.
DropLine(st, l) ==
    IF l.DropCOMID > 0 /\ ~st.raised
    THEN IF HasRow(st.through, l.DropCOMID)
         THEN [st EXCEPT !.through.rows = SelectSeq(st.through.rows, LAMBDA r : r[1] # l.DropCOMID)]
         ELSE [st EXCEPT !.raised = TRUE]
    ELSE st

AdjustLine(st, l) == DropLine(AdjustThrough(AdjustTo(st, l), l), l)

\* toVPUs.append(con); toVPUs.to_csv(Connector) when COMIDs came from another zone.
ToFile(st, anyTo, files) ==
    IF anyTo
    THEN Put(files, Connector,
             [columns |-> st.to.columns, rows |-> st.to.rows \o files[Connector].rows])
    ELSE files

\* throughVPUs.append(con) when the file exists; throughVPUs.to_csv(Connector).
ThroughFile(st, files) ==
    Put(files, Connector,
        IF Connector \in DOMAIN files
        THEN [columns |-> st.through.columns,
              rows |-> st.through.rows \o files[Connector].rows]
        ELSE st.through)

\* After the loop: nothing is written when the loop or pd.read_csv(Connector)
\* has raised.
WriteConnector(st, anyTo, files) ==
    IF st.raised \/ (anyTo /\ Connector \notin DOMAIN files)
    THEN [raised |-> TRUE, files |-> files]
    ELSE [raised |-> FALSE, files |-> ThroughFile(st, ToFile(st, anyTo, files))]

\* interVPU(tbl, cols, accum_type, zone, Connector, interVPUtbl, summaryfield):
\* what it raises and the files it leaves.
interVPU(tbl, cols, zone, files, itbl) ==
    LET thru == {itbl[i].thruCOMIDs : i \in 1..Len(itbl)}
        through0 == [columns |-> cols, rows |-> RowsIn(tbl, thru)]
        zt == SelectSeq(itbl, LAMBDA l : l.FromZone = zone)
        anyTo == \E i \in 1..Len(zt) : zt[i].toCOMIDs > 0
    IN  IF anyTo /\ (interAlloc(zt[1].ToZone) \notin DOMAIN files)
        THEN [raised |-> TRUE, files |-> files]
        ELSE
        LET to0 == IF anyTo
                   THEN [columns |-> files[interAlloc(zt[1].ToZone)].columns,
                         rows |-> RowsIn(files[interAlloc(zt[1].ToZone)],
                                         {zt[i].toCOMIDs : i \in 1..Len(zt)} \ {0})]
                   ELSE [columns |-> <<>>, rows |-> <<>>]
            F[i \in 0..Len(zt)] ==
                IF i = 0 THEN [raised |-> FALSE, to |-> to0, through |-> through0]
                ELSE AdjustLine(F[i - 1], zt[i])
        IN  WriteConnector(F[Len(zt)], anyTo, files)

\* ------------------------------------------------------------------ state
VARIABLES
    tree,       \* UpCOMs: key -> list of direct parents
    nrows,      \* flow rows read so far by the loop of UpcomDict (0 once it returned)
    pc,         \* "build" | "crawl" | "done" | "idle" (and "vectors" | "accumulated")
    fn,         \* the function of the running query
    token,      \* its start COMID
    chkset,     \* its chkset argument
    visited,    \* its visited set
    to_crawl,   \* its deque
    result,     \* the set of the list it returned
    expanded,   \* nodes whose parent list the query has read, in order
    iters,      \* iterations of the while loop of the query
    index,      \* the closure arrays of the zone: [UpCat, Ws] -> [COMIDs, lengths, upStream]
    arr,        \* the table passed to Accumulation
    tbl_type,   \* "Ws" | "UpCat"
    outDF,      \* what Accumulation returned
    thruIDs,    \* the through-COMIDs makeNumpyVectors appended to the ids of the zone
    adjArgs,    \* the call of AdjustCOMs: which table, comid1, comid2
    adjusted,   \* the table the call of AdjustCOMs left
    flow,       \* the rows of PlusFlow.dbf of the zone: [TOCOMID, FROMCOMID]
    coast,      \* NHDFlowline.dbf of the zone: its COMIDs and those of FTYPE Coastline
    interVPUtbl, \* the rows of the correction table
    cats,       \* the catchment universe of makeNumpyVectors
    disk,       \* the .npy files: <<directory, name, zone>> -> array
    zoneInput,  \* the NHD tables of every zone, as they are now
    zoneAt,     \* position of the loop over the zones in makeNumpyVectors
    step,       \* np.save calls done for the zone being written
    fresh,      \* zone -> the closure arrays last computed for it
    whole,      \* the zones whose six np.save calls have all been done
    loaded,     \* the last call of createAccumTable and what it gave
    writers,    \* the zones whose interVPU has written the connector file
    runs,       \* calls of interVPU so far
    appended    \* the last call of appendConnectors and what it gave

queryVars == <<fn, token, chkset, visited, to_crawl, result, expanded, iters>>
accumVars == <<index, arr, tbl_type, outDF>>
adjustVars == <<thruIDs, adjArgs, adjusted>>
buildVars == <<flow, coast, interVPUtbl, cats>>
diskVars == <<disk, zoneInput, zoneAt, step, fresh, whole, loaded>>
connectVars == <<writers, runs, appended>>
restVars == <<adjustVars, buildVars, diskVars, connectVars>>
vars == <<tree, nrows, pc, queryVars, accumVars, restVars>>

Init ==
    /\ tree = <<>>
    /\ nrows = 0
    /\ pc = "build"
    /\ fn = "children"
    /\ token = 1
    /\ chkset = NoChk
    /\ visited = {}
    /\ to_crawl = <<>>
    /\ result = {}
    /\ expanded = <<>>
    /\ iters = 0
    /\ index = NoIndex
    /\ arr = [columns |-> <<>>, rows |-> <<>>]
    /\ tbl_type = "Ws"
    /\ outDF = NoTable
    /\ thruIDs = <<>>
    /\ adjArgs = NoAdjust
    /\ adjusted = NoTable
    /\ flow = <<>>
    /\ coast = NoFlowlines
    /\ interVPUtbl = <<>>
    /\ cats = {}
    /\ disk = <<>>
    /\ zoneInput = [z \in Range(inputs) |-> CHOOSE i \in ZoneInputs(z) : \A j \in ZoneInputs(z) : Len(j.flow) <= Len(i.flow)]
    /\ zoneAt = 0
    /\ step = 0
    /\ fresh = [z \in Range(inputs) |-> NoIndex]
    /\ whole = {}
    /\ loaded = NoLoad
    /\ writers = {}
    /\ runs = 0
    /\ appended = NoAppend

\* One iteration of the loop that fills UpCOMs from the filtered flow table.
UpcomRow ==
    /\ pc = "build"
    /\ nrows < MaxRows
    /\ \E FROMCOMID \in Nodes \cup {0}, TOCOMID \in Nodes :
         tree' = AddFlowRow(tree, TOCOMID, FROMCOMID)
    /\ nrows' = nrows + 1
    /\ UNCHANGED <<pc, queryVars, accumVars, restVars>>

\* A call children(token, tree, chkset) or bastards(token, tree, chkset) on
\* the adjacency UpcomDict returned.
StartQuery ==
    /\ pc \in {"build", "idle"}
    /\ \E f \in {"children", "bastards"}, tok \in Nodes, chk \in ChkSets :
         /\ fn' = f
         /\ token' = tok
         /\ chkset' = chk
         /\ to_crawl' = <<tok>>
    /\ visited' = {}
    /\ result' = {}
    /\ expanded' = <<>>
    /\ iters' = 0
    /\ pc' = "crawl"
    /\ nrows' = 0
    /\ UNCHANGED <<tree, accumVars, restVars>>

\* One iteration of the while loop.
CrawlNext ==
    /\ pc = "crawl"
    /\ to_crawl # <<>>
    /\ LET st == [visited |-> visited, to_crawl |-> to_crawl, tree |-> tree,
                  expanded |-> expanded]
       IN  \E ord \in Orderings(ToPush(st)) :
             LET nx == CrawlStep(st, ord)
             IN  /\ visited' = nx.visited
                 /\ to_crawl' = nx.to_crawl
                 /\ tree' = nx.tree
                 /\ expanded' = nx.expanded
    /\ iters' = iters + 1
    /\ UNCHANGED <<nrows, pc, fn, token, chkset, result, accumVars, restVars>>

\* The deque is empty: the function returns.
Finish ==
    /\ pc = "crawl"
    /\ to_crawl = <<>>
    /\ result' = Return(fn, token, visited, chkset)
    /\ pc' = "done"
    /\ UNCHANGED <<tree, nrows, fn, token, chkset, visited, to_crawl, expanded, iters, accumVars, restVars>>

\* The caller has taken the returned list: the locals of the call are gone.
Discard ==
    /\ pc = "done"
    /\ pc' = "idle"
    /\ fn' = "children"
    /\ token' = 1
    /\ chkset' = NoChk
    /\ visited' = {}
    /\ to_crawl' = <<>>
    /\ result' = {}
    /\ expanded' = <<>>
    /\ iters' = 0
    /\ UNCHANGED <<tree, nrows, accumVars, restVars>>

Next == UpcomRow \/ StartQuery \/ CrawlNext \/ Finish \/ Discard

Spec == Init /\ [][Next]_vars

\* A call that has started runs on: the interpreter takes the next iteration
\* of the loop, and returns when the loop ends.
FairSpec == Spec /\ WF_vars(CrawlNext) /\ WF_vars(Finish)

\* ------------------------------------------- SpecAccum: the accumulation
\* The cells a table may hold.
Areas == {NaN, Num(0), Num(1), Num(2)}
Vals == {NaN, Num(10), Num(100)}

\* The orders in which a table lists its COMIDs.
TableOrders(S) == {Ascending(S), Reverse(Ascending(S))}

\* The tables passed to Accumulation: the COMID, the area and one more column
\* (a summed metric or a coverage fraction), one row per COMID for some of the
\* COMIDs.
Tables ==
    UNION {UNION {{[columns |-> <<"COMID", "CatAreaSqKm", c>>,
                    rows |-> [i \in 1..Len(o) |-> <<o[i], v[i][1], v[i][2]>>]] :
                      v \in [1..Len(o) -> Areas \X Vals], c \in {"CatSum", "CatPctFull"}} :
                  o \in TableOrders(S)} :
           S \in (SUBSET Nodes) \ {{}}}

RECURSIVE Flatten(_)
Flatten(lists) == IF lists = <<>> THEN <<>> ELSE Head(lists) \o Flatten(Tail(lists))

\* The arrays makeNumpyVectors computes for a zone from the adjacency t, the
\* query COMIDs ids and the catchment universe chk, with bastards (UpCat) or
\* children (Ws).
ClosureArrays(ttype, t, ids, chk) ==
    LET a == [i \in 1..Len(ids) |->
                Ascending(IF ttype = "UpCat" THEN bastards(ids[i], t, Chk(chk))
                                             ELSE children(ids[i], t, Chk(chk)))]
    IN  [COMIDs |-> ids,
         lengths |-> [i \in 1..Len(ids) |-> Len(a[i])],
         upStream |-> Flatten(a)]

\* makeNumpyVectors, for one zone: the closure arrays of every catchment of
\* the zone, exclusive and inclusive. UpStreamComs is local to it.
MakeVectors ==
    /\ pc = "build"
    /\ index' = [t \in {"UpCat", "Ws"} |-> ClosureArrays(t, tree, Ascending(Nodes), Nodes)]
    /\ tree' = <<>>
    /\ nrows' = 0
    /\ pc' = "vectors"
    /\ UNCHANGED <<queryVars, arr, tbl_type, outDF, restVars>>

\* Accumulation(arr, COMIDs, lengths, upStream, tbl_type) on the arrays of the zone.
Accumulate ==
    /\ pc = "vectors"
    /\ \E a \in Tables, t \in {"Ws", "UpCat"} :
         /\ arr' = a
         /\ tbl_type' = t
         /\ outDF' = Accumulation(a, index[t].COMIDs, index[t].lengths, index[t].upStream, t)
    /\ pc' = "accumulated"
    /\ UNCHANGED <<tree, nrows, queryVars, index, restVars>>

NextAccum == UpcomRow \/ MakeVectors \/ Accumulate

SpecAccum == Init /\ [][NextAccum]_vars

\* ------------------------- SpecAdjust: through-COMIDs and AdjustCOMs
\* The catchments of the zone (catch.index) and the through-COMIDs of the
\* correction rows with ToZone == zone and DropCOMID == 0, which come from
\* other zones.
ZoneIds ==
    {[catch |-> Ascending(Nodes), thru |-> <<>>],
     [catch |-> <<1, 2>>, thru |-> <<>>],
     [catch |-> <<1, 2>>, thru |-> <<3>>],
     [catch |-> <<1, 2>>, thru |-> <<0>>]}

\* np.delete(COMIDs, np.where(COMIDs == 0))
DeleteZeros(ids) == SelectSeq(ids, LAMBDA c : c # 0)

\* The rows of a catchment table: its area, a summed metric and a coverage
\* fraction.
RowKinds ==
    {<<Num(1), Num(10), Num(100)>>,
     <<Num(0), NaN, Num(50)>>,
     <<Num(2), Num(20), Num(50)>>}

\* The catchment tables of the zone, with or without rows appended for
\* COMIDs of other zones; at least two rows.
WideTables ==
    UNION {{[columns |-> <<"COMID", "CatAreaSqKm", "CatSum", "CatPctFull">>,
             rows |-> [i \in 1..Len(Ascending(S)) |->
                         <<Ascending(S)[i]>> \o v[i]]] :
               v \in [1..Cardinality(S) -> RowKinds]} :
           S \in {T \in SUBSET Nodes : Cardinality(T) >= 2}}

\* makeNumpyVectors for one zone, with the query ids of line 919: the
\* catchments of the zone followed by the through-COMIDs, zeros deleted.
MakeZoneVectors ==
    /\ pc = "build"
    /\ \E z \in ZoneIds :
         /\ thruIDs' = z.thru
         /\ index' = [t \in {"UpCat", "Ws"} |->
                        ClosureArrays(t, tree, DeleteZeros(z.catch \o z.thru), Nodes)]
    /\ tree' = <<>>
    /\ nrows' = 0
    /\ pc' = "vectors"
    /\ UNCHANGED <<queryVars, arr, tbl_type, outDF, adjArgs, adjusted, buildVars, diskVars, connectVars>>

AccumulateZone ==
    /\ pc = "vectors"
    /\ \E a \in WideTables, t \in {"Ws", "UpCat"} :
         /\ arr' = a
         /\ tbl_type' = t
         /\ outDF' = Accumulation(a, index[t].COMIDs, index[t].lengths, index[t].upStream, t)
    /\ pc' = "accumulated"
    /\ UNCHANGED <<tree, nrows, queryVars, index, adjustVars, buildVars, diskVars, connectVars>>

\* throughVPUs.columns = cols: the accumulated table under the column names
\* of the catchment table.
Renamed(t, cols) == [columns |-> cols, rows |-> t.rows]

\* The calls interVPU makes: AdjustCOMs(throughVPUs, comid1, comid2, None) on
\* the accumulated table, and AdjustCOMs(toVPUs, comid1, comid2, throughVPUs)
\* on a table of another zone.
Adjust ==
    /\ pc = "accumulated"
    /\ ~outDF.raised
    /\ \E c1 \in Nodes, c2 \in Nodes, mode \in {"through", "to"} :
         /\ adjArgs' = [mode |-> mode, comid1 |-> c1, comid2 |-> c2]
         /\ adjusted' = IF mode = "through"
                        THEN AdjustCOMs(Renamed(outDF, arr.columns), c1, c2, NoTbl2)
                        ELSE AdjustCOMs([columns |-> arr.columns, rows |-> arr.rows], c1, c2,
                                        Tbl2(Renamed(outDF, arr.columns)))
    /\ pc' = "adjusted"
    /\ UNCHANGED <<tree, nrows, queryVars, accumVars, thruIDs, buildVars, diskVars, connectVars>>

NextAdjust == UpcomRow \/ MakeZoneVectors \/ AccumulateZone \/ Adjust

SpecAdjust == Init /\ [][NextAdjust]_vars

\* ------------------- SpecBuild: UpcomDict and the ids of makeNumpyVectors
FlowRows == [TOCOMID : BuildIds, FROMCOMID : BuildIds]
FlowTables ==
    {<<>>} \cup {<<r>> : r \in FlowRows} \cup {<<r, q>> : r \in FlowRows, q \in FlowRows}
Flowlines ==
    {[COMID |-> {1, 2}, Coastline |-> {}],
     [COMID |-> {1}, Coastline |-> {1}]}
InterTables == {<<>>} \cup {<<l>> : l \in InterLines}
\* Catchment.dbf of the zone (catch.index) and the catchments of the other
\* zones, which allCatCOMs.npy also holds.
Catchments ==
    {[zone |-> <<1, 2>>, others |-> {}],
     [zone |-> <<-1, 1>>, others |-> {2}],
     [zone |-> <<0, 1>>, others |-> {2}]}

\* UpStreamComs = UpcomDict(hydroregion, zone, NHD_dir, interVPUtbl) for zone "a".
CallUpcomDict ==
    /\ pc = "build"
    /\ nrows = 0
    /\ \E f \in FlowTables, c \in Flowlines, tbl \in InterTables :
         /\ flow' = f
         /\ coast' = c
         /\ interVPUtbl' = tbl
         /\ tree' = UpcomDict("a", f, c, tbl)
    /\ pc' = "dict"
    /\ UNCHANGED <<nrows, queryVars, accumVars, adjustVars, cats, diskVars, connectVars>>

\* The query ids of the zone, the universe and the closure arrays.
ZoneArrays ==
    /\ pc = "dict"
    /\ \E catch \in Catchments :
         LET sel == SelectSeq(interVPUtbl, LAMBDA l : l.ToZone = "a" /\ l.DropCOMID = 0)
             COMIDs == DeleteZeros(catch.zone \o [i \in 1..Len(sel) |-> sel[i].thruCOMIDs])
             universe == (Range(catch.zone) \cup catch.others) \ {0}
         IN  /\ cats' = universe
             /\ index' = [t \in {"UpCat", "Ws"} |-> ClosureArrays(t, tree, COMIDs, universe)]
    /\ pc' = "arrays"
    /\ UNCHANGED <<tree, nrows, queryVars, arr, tbl_type, outDF, adjustVars, flow, coast, interVPUtbl, diskVars, connectVars>>

NextBuild == CallUpcomDict \/ ZoneArrays

SpecBuild == Init /\ [][NextBuild]_vars

\* --------------- SpecDisk: makeNumpyVectors over the zones, and reloading
\* makeNumpyVectors starts: cats = set(np.load(allCatCOMs.npy)), 0 discarded.
StartRun ==
    /\ pc \in {"build", "ran", "stopped", "failed"}
    /\ nrows = 0
    /\ pc' = "zone"
    /\ zoneAt' = 1
    /\ cats' = AllCOMs \ {0}
    /\ loaded' = NoLoad
    /\ UNCHANGED <<tree, nrows, queryVars, accumVars, adjustVars, flow, coast, interVPUtbl,
                   disk, zoneInput, step, fresh, whole, connectVars>>

\* The arrays of a zone: lines 912-938 for the tables the zone has now.
ZoneIndex(z, in, universe) ==
    LET UpStreamComs == UpcomDict(z, in.flow, in.coast, RunInterVPUtbl)
        sel == SelectSeq(RunInterVPUtbl, LAMBDA l : l.ToZone = z /\ l.DropCOMID = 0)
        COMIDs == DeleteZeros(in.catch \o [i \in 1..Len(sel) |-> sel[i].thruCOMIDs])
    \* np.int32(np.hstack(...)) keeps the ids, which are 32-bit in the NHD tables
    IN  [t \in {"UpCat", "Ws"} |-> ClosureArrays(t, UpStreamComs, COMIDs, universe)]

\* The test at the head of the loop body: a zone whose bastards/upStream file
\* exists is passed over.
SkipZone ==
    /\ pc = "zone"
    /\ zoneAt <= Len(inputs)
    /\ SavedFile(inputs[zoneAt], 1) \in DOMAIN disk
    /\ zoneAt' = zoneAt + 1
    /\ UNCHANGED <<tree, nrows, pc, queryVars, accumVars, adjustVars, buildVars,
                   disk, zoneInput, step, fresh, whole, loaded, connectVars>>

\* The zone is computed; cats.remove raises KeyError when the COMID is gone.
ComputeZone ==
    /\ pc = "zone"
    /\ zoneAt <= Len(inputs)
    /\ SavedFile(inputs[zoneAt], 1) \notin DOMAIN disk
    /\ LET z == inputs[zoneAt]
           universe == IF z = "14" THEN cats \ {Anomaly} ELSE cats
       IN  IF z = "14" /\ Anomaly \notin cats
           THEN /\ pc' = "failed"
                /\ UNCHANGED <<cats, index, fresh, step>>
           ELSE /\ cats' = universe
                /\ index' = ZoneIndex(z, zoneInput[z], universe)
                /\ fresh' = [fresh EXCEPT ![z] = ZoneIndex(z, zoneInput[z], universe)]
                /\ step' = 0
                /\ pc' = "saving"
    /\ UNCHANGED <<tree, nrows, queryVars, arr, tbl_type, outDF, adjustVars, flow, coast,
                   interVPUtbl, disk, zoneInput, zoneAt, whole, loaded, connectVars>>

\* The next np.save of the zone; after the sixth the loop goes to the next zone.
SaveArray ==
    /\ pc = "saving"
    /\ disk' = Put(disk, SavedFile(inputs[zoneAt], step + 1), SavedArray(index, step + 1))
    /\ IF step + 1 = 6
       THEN /\ step' = 0
            /\ zoneAt' = zoneAt + 1
            /\ whole' = whole \cup {inputs[zoneAt]}
            /\ index' = NoIndex
            /\ pc' = "zone"
       ELSE /\ step' = step + 1
            /\ UNCHANGED <<zoneAt, whole, index, pc>>
    /\ UNCHANGED <<tree, nrows, queryVars, arr, tbl_type, outDF, adjustVars, buildVars,
                   zoneInput, fresh, loaded, connectVars>>

\* The loop over the zones is over.
EndRun ==
    /\ pc = "zone"
    /\ zoneAt > Len(inputs)
    /\ pc' = "ran"
    /\ zoneAt' = 0
    /\ cats' = {}
    /\ UNCHANGED <<tree, nrows, queryVars, accumVars, adjustVars, flow, coast, interVPUtbl,
                   disk, zoneInput, step, fresh, whole, loaded, connectVars>>

\* The process is killed during the run: its variables are gone, the files stay.
Interrupt ==
    /\ pc \in {"zone", "saving"}
    /\ pc' = "stopped"
    /\ zoneAt' = 0
    /\ step' = 0
    /\ cats' = {}
    /\ index' = NoIndex
    /\ UNCHANGED <<tree, nrows, queryVars, arr, tbl_type, outDF, adjustVars, flow, coast,
                   interVPUtbl, disk, zoneInput, fresh, whole, loaded, connectVars>>

\* Between runs the NHD tables of a zone are replaced.
ChangeInputs ==
    /\ pc \in {"ran", "stopped"}
    /\ \E z \in Range(inputs) : \E in \in ZoneInputs(z) :
         /\ in # zoneInput[z]
         /\ zoneInput' = [zoneInput EXCEPT ![z] = in]
    /\ UNCHANGED <<tree, nrows, pc, queryVars, accumVars, adjustVars, buildVars,
                   disk, zoneAt, step, fresh, whole, loaded, connectVars>>

\* createAccumTable(table, directory, zone, tbl_type) after a run.
LoadAccum ==
    /\ pc \in {"ran", "stopped"}
    /\ \E z \in Range(inputs), t \in {"UpCat", "Ws"} :
         loaded' = createAccumTable(ZoneTable, disk, z, t)
    /\ UNCHANGED <<tree, nrows, pc, queryVars, accumVars, adjustVars, buildVars,
                   disk, zoneInput, zoneAt, step, fresh, whole, connectVars>>

NextDisk ==
    \/ StartRun \/ SkipZone \/ ComputeZone \/ SaveArray \/ EndRun
    \/ Interrupt \/ ChangeInputs \/ LoadAccum

SpecDisk == Init /\ [][NextDisk]_vars

\* ---------------- SpecConnect: interVPU and appendConnectors, in any order
\* Calls of interVPU in a model run.
MaxRuns == 3

\* The catchment table of a zone, and its Ws table without and with the rows
\* appendConnectors adds.
ZoneCat(z) ==
    [columns |-> ZoneTable.columns,
     rows |-> RowsIn(ZoneTable, IF z = "U" THEN {1} ELSE IF z = "D" THEN {2} ELSE {3})]
\* D's table has the row of through-COMID 1 once the connector file holds it.
ZoneWs(z, files) ==
    {[columns |-> <<"COMID", "WsAreaSqKm", "WsSum", "WsPctFull">>, rows |-> ZoneCat(z).rows]}
    \cup (IF z = "D" /\ Connector \in DOMAIN files /\ HasRow(files[Connector], 1)
          THEN {[columns |-> <<"COMID", "WsAreaSqKm", "WsSum", "WsPctFull">>,
                 rows |-> ZoneCat(z).rows \o RowsIn(ZoneTable, {1})]}
          ELSE {})

RunInterVPU ==
    /\ pc \in {"build", "connect"}
    /\ nrows = 0
    /\ runs < MaxRuns
    /\ \E z \in ConnectZones : \E tbl \in ZoneWs(z, disk) :
         LET res == interVPU(tbl, ZoneTable.columns, z, disk, ConnectTbl)
         IN  /\ disk' = res.files
             /\ writers' = IF res.raised THEN writers ELSE writers \cup {z}
    /\ runs' = runs + 1
    /\ appended' = NoAppend
    /\ pc' = "connect"
    /\ UNCHANGED <<tree, nrows, queryVars, accumVars, adjustVars, buildVars,
                   zoneInput, zoneAt, step, fresh, whole, loaded>>

CallAppendConnectors ==
    /\ pc \in {"build", "connect"}
    /\ nrows = 0
    /\ \E z \in ConnectZones :
         appended' = appendConnectors(ZoneCat(z), disk, z, ConnectTbl)
    /\ pc' = "connect"
    /\ UNCHANGED <<tree, nrows, queryVars, accumVars, adjustVars, buildVars, diskVars,
                   writers, runs>>

NextConnect == RunInterVPU \/ CallAppendConnectors

SpecConnect == Init /\ [][NextConnect]_vars

\* ------------------------------------------------ accumulation properties
Accumulated == pc = "accumulated" /\ ~outDF.raised

\* The arrays Accumulation was called with, and the slice of query i.
Idx == index[tbl_type]
Queries == 1..Len(Idx.COMIDs)
\* The part of upStream that belongs to query i of the arrays ix: the
\* lengths[i] entries after those of the queries before i.
Offset(ix, i) ==
    LET O[j \in 1..Len(ix.lengths)] == IF j = 1 THEN 0 ELSE O[j - 1] + ix.lengths[j - 1]
    IN  O[i]
SliceIn(ix, i) == [j \in 1..ix.lengths[i] |-> ix.upStream[Offset(ix, i) + j]]
SliceOf(i) == SliceIn(Idx, i)

TableCOMIDs == {arr.rows[r][1] : r \in 1..Len(arr.rows)}
LocalRow(c) == arr.rows[CHOOSE r \in 1..Len(arr.rows) : arr.rows[r][1] = c]
HasOutRow(c) == \E r \in 1..Len(outDF.rows) : outDF.rows[r][1] = c
OutRowOf(c) == outDF.rows[CHOOSE r \in 1..Len(outDF.rows) : outDF.rows[r][1] = c]
AllUpstreamInTable == Range(Idx.upStream) \subseteq TableCOMIDs

\* The sum, over a set of COMIDs of the table, of column k of their local
\* rows, a missing value counting as zero (the cells of a table are whole
\* numbers).
RECURSIVE LocalSum(_, _)
LocalSum(S, k) ==
    IF S = {} THEN 0
    ELSE LET c == CHOOSE x \in S : TRUE
             v == LocalRow(c)[k]
         IN  (IF v = NaN THEN 0 ELSE v[1]) + LocalSum(S \ {c}, k)

SumColumns == {k \in 2..Len(arr.columns) : ~HasPctFull(arr.columns[k])}
PctColumns == {k \in 2..Len(arr.columns) : HasPctFull(arr.columns[k])}

\* C6 as stated: when every id of flatUpstream is a COMID of the table, the
\* returned table holds, for every query id (with a row in the table) and
\* every non-PctFull column, the sum over the id's closure slice of the local
\* values, missing as zero.
C6_EveryQuerySummed ==
    (Accumulated /\ AllUpstreamInTable) =>
        \A i \in Queries :
            Idx.COMIDs[i] \in TableCOMIDs =>
                /\ HasOutRow(Idx.COMIDs[i])
                /\ \A k \in SumColumns :
                      OutRowOf(Idx.COMIDs[i])[k] = Num(LocalSum(Range(SliceOf(i)), k))

\* C6, amended: under the same condition, for every query id that is a COMID
\* of the table, the area column is that sum; every other non-PctFull column
\* is that sum when the summed area is not zero and the missing value when it
\* is zero. A query id that is not in the table has no row.
C6_QueriesInTableSummed ==
    (Accumulated /\ AllUpstreamInTable) =>
        \A i \in Queries :
            LET c == Idx.COMIDs[i]
                S == Range(SliceOf(i))
            IN  /\ HasOutRow(c) <=> c \in TableCOMIDs
                /\ c \in TableCOMIDs =>
                      /\ OutRowOf(c)[2] = Num(LocalSum(S, 2))
                      /\ \A k \in SumColumns \ {2} :
                            OutRowOf(c)[k] = IF LocalSum(S, 2) = 0 THEN NaN
                                             ELSE Num(LocalSum(S, k))

\* Edges 1 -> 3 and 2 -> 3, area 1 and metric 10 in each row of a table that
\* is not sorted by COMID: Ws(3) = (area 3, metric 30).
C6_Witness ==
    /\ Accumulated
    /\ tbl_type = "Ws"
    /\ arr.columns[3] = "CatSum"
    /\ arr.rows = <<<<3, Num(1), Num(10)>>, <<2, Num(1), Num(10)>>, <<1, Num(1), Num(10)>>>>
    /\ index["Ws"].lengths = <<1, 1, 3>>
    /\ OutRowOf(3) = <<3, Num(3), Num(30)>>

\* A node whose inclusive closure is itself alone (a headwater), with a row
\* in the table.
Headwater(i) ==
    /\ SliceIn(index["Ws"], i) = <<Idx.COMIDs[i]>>
    /\ Idx.COMIDs[i] \in TableCOMIDs

\* C7 as stated: every column of the Ws row of a headwater equals the same
\* column of its local row, whatever the local row holds.
C7_HeadwaterWsIsLocal ==
    (Accumulated /\ tbl_type = "Ws") =>
        \A i \in Queries :
            Headwater(i) =>
                /\ HasOutRow(Idx.COMIDs[i])
                /\ OutRowOf(Idx.COMIDs[i]) = LocalRow(Idx.COMIDs[i])

\* C7, amended: every column of the Ws row of a headwater equals the same
\* column of its local row when the local area is present and not zero and no
\* local value is missing.
C7_HeadwaterWsIsLocalWhenPresent ==
    (Accumulated /\ tbl_type = "Ws") =>
        \A i \in Queries :
            LET c == Idx.COMIDs[i]
            IN  (/\ Headwater(i)
                 /\ LocalRow(c)[2] \notin {NaN, Num(0)}
                 /\ \A k \in 3..Len(arr.columns) : LocalRow(c)[k] # NaN) =>
                    /\ HasOutRow(c)
                    /\ OutRowOf(c) = LocalRow(c)

\* A headwater with area 2 and coverage 10 that is not the first of three
\* queries nor the first row of the table.
C7_Witness ==
    /\ Accumulated
    /\ tbl_type = "Ws"
    /\ arr.columns[3] = "CatPctFull"
    /\ Len(arr.rows) = 3
    /\ arr.rows[1][1] = 3
    /\ index["Ws"].lengths[1] > 1
    /\ Headwater(2)
    /\ LocalRow(2) = <<2, Num(2), Num(10)>>
    /\ OutRowOf(2) = <<2, Num(2), Num(10)>>

\* Every member of the closure of query i has PctFull = 100 in column k.
AllFull(i, k) ==
    /\ Idx.lengths[i] > 0
    /\ \A u \in Range(SliceOf(i)) : u \in TableCOMIDs /\ LocalRow(u)[k] = Num(100)

\* C8 as stated: when every member of a closure has PctFull = 100, the
\* area-weighted average of the closure is 100 for every assignment of area
\* weights (every member having an area).
C8_AllFullGivesFull ==
    Accumulated =>
        \A i \in Queries : \A k \in PctColumns :
            (/\ AllFull(i, k)
             /\ HasOutRow(Idx.COMIDs[i])
             /\ \A u \in Range(SliceOf(i)) : LocalRow(u)[2] # NaN) =>
                OutRowOf(Idx.COMIDs[i])[k] = Num(100)

\* C8, amended: when every member of a closure has PctFull = 100, no member's
\* area is missing and the areas do not sum to zero, the area-weighted average
\* of the closure is 100.
C8_AllFullGivesFullOnPositiveArea ==
    Accumulated =>
        \A i \in Queries : \A k \in PctColumns :
            (/\ AllFull(i, k)
             /\ HasOutRow(Idx.COMIDs[i])
             /\ \A u \in Range(SliceOf(i)) : LocalRow(u)[2] # NaN
             /\ LocalSum(Range(SliceOf(i)), 2) # 0) =>
                OutRowOf(Idx.COMIDs[i])[k] = Num(100)

\* A closure of three members, all with PctFull = 100, with the unequal area
\* weights 0, 1 and 2.
C8_Witness ==
    /\ Accumulated
    /\ arr.columns[3] = "CatPctFull"
    /\ \E i \in Queries :
         /\ Idx.lengths[i] = 3
         /\ AllFull(i, 3)
         /\ {LocalRow(u)[2] : u \in Range(SliceOf(i))} = {Num(0), Num(1), Num(2)}
         /\ HasOutRow(Idx.COMIDs[i])
         /\ OutRowOf(Idx.COMIDs[i])[3] = Num(100)

\* C9 as stated: a returned row whose area column is zero holds the missing
\* value in every column other than COMID.
C9_ZeroAreaRowAllMissing ==
    Accumulated =>
        \A r \in 1..Len(outDF.rows) :
            outDF.rows[r][2] = Num(0) =>
                \A k \in 2..Len(outDF.columns) : outDF.rows[r][k] = NaN

\* C9, amended: a returned row whose area column is zero holds the missing
\* value in every column after the area column; the area column itself keeps
\* its zero.
C9_ZeroAreaRowMissingAfterArea ==
    Accumulated =>
        \A r \in 1..Len(outDF.rows) :
            outDF.rows[r][2] = Num(0) =>
                \A k \in 3..Len(outDF.columns) : outDF.rows[r][k] = NaN

\* A returned row with zero area whose closure has a local metric of 10 to
\* sum: the metric column holds the missing value, not 10.
C9_Witness ==
    /\ Accumulated
    /\ arr.columns[3] = "CatSum"
    /\ AllUpstreamInTable
    /\ \E i \in Queries :
         /\ HasOutRow(Idx.COMIDs[i])
         /\ LocalSum(Range(SliceOf(i)), 3) = 20
         /\ OutRowOf(Idx.COMIDs[i]) = <<Idx.COMIDs[i], Num(0), NaN>>

\* C10 as stated: a catchment D whose local area is 0 has the missing value
\* in every derived column of its row, in the Ws and in the UpCat table,
\* whatever is upstream of D.
C10_ZeroLocalAreaRowMissing ==
    (Accumulated /\ AllUpstreamInTable) =>
        \A D \in TableCOMIDs :
            (LocalRow(D)[2] = Num(0) /\ HasOutRow(D)) =>
                \A k \in 3..Len(outDF.columns) : OutRowOf(D)[k] = NaN

\* C10, amended: a catchment D whose local area is 0 has the missing value in
\* every column after the area column of its row, in the Ws and in the UpCat
\* table, when every other catchment of its closure has a zero or missing
\* area (a headwater D, for one).
C10_ZeroAreaUpstreamRowMissing ==
    (Accumulated /\ AllUpstreamInTable) =>
        \A i \in Queries :
            LET D == Idx.COMIDs[i]
            IN  (/\ D \in TableCOMIDs
                 /\ LocalRow(D)[2] = Num(0)
                 /\ \A u \in Range(SliceOf(i)) \ {D} : LocalRow(u)[2] \in {NaN, Num(0)}) =>
                    /\ HasOutRow(D)
                    /\ \A k \in 3..Len(outDF.columns) : OutRowOf(D)[k] = NaN

\* D = 3 with local area 0 below two catchments, one with area 0 and one with
\* a missing area, whose metrics are present.
C10_Witness ==
    /\ Accumulated
    /\ tbl_type = "UpCat"
    /\ AllUpstreamInTable
    /\ Len(arr.rows) = 3
    /\ LocalRow(3)[2] = Num(0)
    /\ Range(SliceOf(3)) = {1, 2}
    /\ LocalRow(1) = <<1, Num(0), Num(10)>>
    /\ LocalRow(2) = <<2, NaN, Num(100)>>
    /\ OutRowOf(3) = <<3, Num(0), NaN>>

\* ---------------------------------------------------- closure properties
\* The nodes from which n is reached by following child -> parents edges zero
\* or more times: the least set holding n and closed under "parents of".
RECURSIVE ReachFrom(_, _)
ReachFrom(S, t) ==
    LET nxt == S \cup UNION {Range(Lookup(t, n)) : n \in S}
    IN  IF nxt = S THEN S ELSE ReachFrom(nxt, t)

Upstream(n, t) == ReachFrom({n}, t)

Restrict(S, chk) == IF chk.given THEN S \cap chk.ids ELSE S

\* The distinct (parent, child) pairs of an adjacency.
EdgeSet(t) == {e \in Nodes \X Nodes : e[1] \in Range(Lookup(t, e[2]))}

Returned(f) == pc = "done" /\ fn = f

\* C1 as stated: children(n, tree, U) contains n for every U, also a U that
\* does not contain n.
C1_ChildrenAlwaysHoldsToken ==
    Returned("children") => token \in result

\* C1, amended: children(n, tree, U) contains n when no universe is passed or
\* n is in the universe U.
C1_ChildrenHoldsTokenInUniverse ==
    (Returned("children") /\ (~chkset.given \/ token \in chkset.ids)) => token \in result

C1_Witness ==
    /\ Returned("children")
    /\ chkset.given
    /\ token \in chkset.ids
    /\ chkset.ids # Nodes
    /\ Cardinality(result) >= 2

\* C2: bastards(n, tree, U) is children(n, tree, U) without n, and so never
\* holds n, on every adjacency (cyclic ones included).
C2_BastardsIsChildrenMinusToken ==
    Returned("bastards") =>
        /\ result = children(token, tree, chkset) \ {token}
        /\ token \notin result

\* n is its own ancestor (a cycle through n) and the query has returned a
\* non-empty set.
C2_Witness ==
    /\ Returned("bastards")
    /\ token \in UNION {Upstream(p, tree) : p \in Range(Lookup(tree, token))}
    /\ result # {}
    /\ chkset.given

\* C3: children(n, tree, U) is exactly the set of nodes reachable from n along
\* child -> parents edges (zero or more), intersected with U when U is given.
C3_ChildrenIsReachable ==
    Returned("children") => result = Restrict(Upstream(token, tree), chkset)

\* A query over a cycle that reaches a node two edges away and drops a
\* reachable node that is outside U.
C3_Witness ==
    /\ Returned("children")
    /\ chkset.given
    /\ Cardinality(Upstream(token, tree)) = 3
    /\ Cardinality(result) = 2
    /\ \E n \in Nodes : n \in UNION {Upstream(p, tree) : p \in Range(Lookup(tree, n))}

\* C4: a query reads the parent list of a node at most once, and its loop
\* runs at most once per push: once for the start node and once for each
\* distinct edge of the adjacency, so it ends.
ExpandedOnceAndBounded ==
    pc \in {"crawl", "done"} =>
        /\ \A i, j \in 1..Len(expanded) : expanded[i] = expanded[j] => i = j
        /\ iters + Len(to_crawl) <= 1 + Cardinality(EdgeSet(tree))

C4_TerminatesExpandingOnce ==
    /\ []ExpandedOnceAndBounded
    /\ (pc = "crawl") ~> (pc = "done")

\* A finished query in which a node was popped a second time and skipped.
C4_Witness ==
    /\ pc = "done"
    /\ iters > Len(expanded)
    /\ Len(expanded) = 3

\* C5 as stated: a closure query leaves the adjacency as it was (same keys,
\* same parent lists).
C5_QueryLeavesTreeUnchanged ==
    [][pc' # "build" => tree' = tree]_vars

\* C17 as stated: swapper maps every id of upStream to the row of the table
\* with that COMID, for every table and every closure index of the zone.
C17_SwapperFindsEveryId ==
    pc = "accumulated" =>
        LET sw == swapper([r \in 1..Len(arr.rows) |-> arr.rows[r][1]], Idx.upStream)
        IN  /\ ~sw.raised
            /\ \A j \in 1..Len(Idx.upStream) :
                 /\ sw.indices[j] \in 1..Len(arr.rows)
                 /\ arr.rows[sw.indices[j]][1] = Idx.upStream[j]

\* C17, amended: when every id of upStream is a COMID of the table, swapper
\* maps each of them to the row of the table with that COMID, whatever the
\* order of the rows.
C17_SwapperFindsIdsOfTable ==
    (pc = "accumulated" /\ AllUpstreamInTable) =>
        LET sw == swapper([r \in 1..Len(arr.rows) |-> arr.rows[r][1]], Idx.upStream)
        IN  /\ ~sw.raised
            /\ \A j \in 1..Len(Idx.upStream) :
                 /\ sw.indices[j] \in 1..Len(arr.rows)
                 /\ arr.rows[sw.indices[j]][1] = Idx.upStream[j]

\* A table in descending COMID order and closures that name all three of
\* its rows.
C17_Witness ==
    /\ pc = "accumulated"
    /\ AllUpstreamInTable
    /\ Len(arr.rows) = 3
    /\ arr.rows[1][1] > arr.rows[2][1]
    /\ Range(Idx.upStream) = Nodes
    /\ Len(Idx.upStream) > 3

\* C18 as stated: while UpcomDict reads the flow rows, an edge it has put
\* into the adjacency stays there, whatever row comes next.
C18_ZeroRowKeepsEdges ==
    [][(pc = "build" /\ pc' = "build") => EdgeSet(tree) \subseteq EdgeSet(tree')]_vars

\* ------------------------------------------------- AdjustCOMs properties
Adjusted == pc = "adjusted" /\ ~adjusted.raised

\* The table the call adjusted, as it was before the call, and the table the
\* subtracted row was taken from.
AdjTbl == IF adjArgs.mode = "through" THEN Renamed(outDF, arr.columns) ELSE arr
AdjSrc == Renamed(outDF, arr.columns)
Cell(t, c, k) == t.rows[CHOOSE r \in 1..Len(t.rows) : t.rows[r][1] = c][k]
\* x - y on cells; a missing operand gives the missing value.
Minus(x, y) ==
    IF x = NaN \/ y = NaN THEN NaN
    ELSE Frac(x[1] * y[2] - y[1] * x[2], x[2] * y[2])

\* C11 as stated: the row of comid1 gets, in every column other than the id
\* and the area column, its value minus that of comid2 in tbl2, and keeps
\* its area.
C11_SubtractsAllButArea ==
    Adjusted =>
        /\ \A k \in 3..Len(AdjTbl.columns) :
             Cell(adjusted, adjArgs.comid1, k) =
                 Minus(Cell(AdjTbl, adjArgs.comid1, k), Cell(AdjSrc, adjArgs.comid2, k))
        /\ Cell(adjusted, adjArgs.comid1, 2) = Cell(AdjTbl, adjArgs.comid1, 2)

\* C11, amended: the row of comid1 gets its value minus that of comid2 in
\* tbl2 in every column after the id except the last one, the area column
\* included; its last column, every other row and the column names stay.
C11_SubtractsAllButLast ==
    Adjusted =>
        /\ \A k \in 2..(Len(AdjTbl.columns) - 1) :
             Cell(adjusted, adjArgs.comid1, k) =
                 Minus(Cell(AdjTbl, adjArgs.comid1, k), Cell(AdjSrc, adjArgs.comid2, k))
        /\ Cell(adjusted, adjArgs.comid1, Len(AdjTbl.columns)) =
               Cell(AdjTbl, adjArgs.comid1, Len(AdjTbl.columns))
        /\ adjusted.columns = AdjTbl.columns
        /\ Len(adjusted.rows) = Len(AdjTbl.rows)
        /\ \A r \in 1..Len(AdjTbl.rows) :
             /\ adjusted.rows[r][1] = AdjTbl.rows[r][1]
             /\ AdjTbl.rows[r][1] # adjArgs.comid1 => adjusted.rows[r] = AdjTbl.rows[r]

\* A call with a second table that changed the area and the metric of comid1.
C11_Witness ==
    /\ Adjusted
    /\ adjArgs.mode = "to"
    /\ adjArgs.comid1 # adjArgs.comid2
    /\ Cell(adjusted, adjArgs.comid1, 2) # Cell(AdjTbl, adjArgs.comid1, 2)
    /\ Cell(adjusted, adjArgs.comid1, 3) \notin {NaN, Cell(AdjTbl, adjArgs.comid1, 3)}
    /\ Cell(AdjSrc, adjArgs.comid2, 4) # Num(0)

\* The inclusive closure of a COMID of the zone, from the Ws arrays.
WsSet(c) ==
    LET ix == index["Ws"]
        i == CHOOSE j \in 1..Len(ix.COMIDs) : ix.COMIDs[j] = c
    IN  Range(SliceIn(ix, i))

\* Two disjoint branches a and b that join at t.
TwoTributaries(t, a, b) ==
    /\ a # b /\ a # t /\ b # t
    /\ WsSet(a) \cap WsSet(b) = {}
    /\ t \notin WsSet(a) \cup WsSet(b)
    /\ WsSet(t) = WsSet(a) \cup WsSet(b) \cup {t}

\* AdjustCOMs(tbl, total, branchA) on the Ws table of a zone whose three
\* catchments all have a row.
BranchAdjusted(t, a, b) ==
    /\ Adjusted
    /\ adjArgs = [mode |-> "through", comid1 |-> t, comid2 |-> a]
    /\ tbl_type = "Ws"
    /\ Idx.COMIDs = Ascending(Nodes)
    /\ TableCOMIDs = Nodes
    /\ TwoTributaries(t, a, b)

\* C12 as stated: after AdjustCOMs(tbl, total, branchA) the row of total
\* equals the accumulated row of branchB in every column.
C12_TotalMinusBranchIsOtherBranch ==
    \A t \in Nodes, a \in Nodes, b \in Nodes :
        BranchAdjusted(t, a, b) =>
            \A k \in 2..Len(outDF.columns) : Cell(adjusted, t, k) = Cell(outDF, b, k)

\* C12, amended: the area of total becomes the area of branchB's closure plus
\* the confluence's own; so does the summed metric unless the row of total or
\* of branchA was blanked; the last column stays; and the row equals that of
\* branchB in area and metric when the confluence has nothing of its own and
\* no row was blanked.
C12_TotalMinusBranchIsRest ==
    \A t \in Nodes, a \in Nodes, b \in Nodes :
        BranchAdjusted(t, a, b) =>
            /\ Cell(adjusted, t, 2) = Num(LocalSum(WsSet(b) \cup {t}, 2))
            /\ (Cell(outDF, t, 2) # Num(0) /\ Cell(outDF, a, 2) # Num(0)) =>
                   Cell(adjusted, t, 3) = Num(LocalSum(WsSet(b) \cup {t}, 3))
            /\ Cell(adjusted, t, 4) = Cell(outDF, t, 4)
            /\ (/\ LocalRow(t)[2] \in {NaN, Num(0)}
                /\ LocalRow(t)[3] \in {NaN, Num(0)}
                /\ \A c \in {a, b} : Cell(outDF, c, 2) # Num(0)) =>
                   \A k \in {2, 3} : Cell(adjusted, t, k) = Cell(outDF, b, k)

\* A confluence without area of its own below two branches with area.
C12_Witness ==
    \E t \in Nodes, a \in Nodes, b \in Nodes :
        /\ BranchAdjusted(t, a, b)
        /\ LocalRow(t)[2] = Num(0)
        /\ Cell(outDF, a, 2) # Num(0)
        /\ Cell(outDF, b, 2) # Num(0)
        /\ Cell(adjusted, t, 3) = Cell(outDF, b, 3)
        /\ Cell(adjusted, t, 3) # Cell(outDF, t, 3)

\* ------------------------------------------------- rows of the result
OutCOMIDs == [r \in 1..Len(outDF.rows) |-> outDF.rows[r][1]]

\* C20 as stated: the returned table has one row per query id, in the order
\* of ids, and none for a through-COMID.
C20_OneRowPerQueryId ==
    Accumulated =>
        /\ OutCOMIDs = Idx.COMIDs
        /\ \A c \in Range(thruIDs) : ~HasOutRow(c)

\* C20, amended: the returned table has one row per query id that is a COMID
\* of the table passed in, in the order of ids; a through-COMID among the ids
\* has a row when the table has one for it.
C20_OneRowPerQueryIdOfTable ==
    Accumulated =>
        /\ OutCOMIDs = SelectSeq(Idx.COMIDs, LAMBDA c : c \in TableCOMIDs)
        /\ \A c \in Range(thruIDs) : HasOutRow(c) <=> (c \in Range(Idx.COMIDs) /\ c \in TableCOMIDs)

\* A through-COMID with a row in the table is returned, and a catchment of
\* the zone without one is not.
C20_Witness ==
    /\ Accumulated
    /\ thruIDs = <<3>>
    /\ HasOutRow(3)
    /\ Idx.COMIDs = <<1, 2, 3>>
    /\ OutCOMIDs = <<1, 3>>

\* ------------------------------------------------- UpcomDict properties
Built == pc \in {"dict", "arrays"}

\* C15 as stated: no node set holds an id <= 0: not the keys and parent lists
\* of the adjacency, not the universe, not the persisted ids and flatUpstream.
C15_NoNodeSetHoldsNonPositiveId ==
    /\ Built =>
         \A k \in DOMAIN tree : k > 0 /\ \A i \in 1..Len(tree[k]) : tree[k][i] > 0
    /\ pc = "arrays" =>
         /\ \A c \in cats : c > 0
         /\ \A t \in {"UpCat", "Ws"} :
              /\ \A i \in 1..Len(index[t].COMIDs) : index[t].COMIDs[i] > 0
              /\ \A i \in 1..Len(index[t].upStream) : index[t].upStream[i] > 0

\* The non-zero ids of the removal list.
Removed == {interVPUtbl[i].removeCOMs : i \in 1..Len(interVPUtbl)} \ {0}
\* The correction rows whose edge into k is injected for the zone.
InjectedInto(k) ==
    {j \in 1..Len(interVPUtbl) : interVPUtbl[j].inflow = k /\ interVPUtbl[j].inflow > 0
                                  /\ interVPUtbl[j].ToZone = "a"}

\* C16 as stated: no parent list holds a non-zero id of the removal list.
C16_RemovedNeverParent ==
    Built =>
        \A k \in DOMAIN tree : \A i \in 1..Len(tree[k]) : tree[k][i] \notin Removed

\* C16, amended: a non-zero id of the removal list is in a parent list only
\* as the through-COMID of a correction row injected for the zone, at the end
\* of the list; no row of the flow table puts it there.
C16_RemovedOnlyInjected ==
    Built =>
        \A k \in DOMAIN tree : \A i \in 1..Len(tree[k]) :
            tree[k][i] \in Removed =>
                /\ i > Len(tree[k]) - Cardinality(InjectedInto(k))
                /\ \E j \in InjectedInto(k) : interVPUtbl[j].thruCOMIDs = tree[k][i]

\* Two flow rows into the same COMID, one from a removed id inside the zone
\* and one from another id: only the other one is a parent.
C16_Witness ==
    /\ pc = "dict"
    /\ Len(flow) = 2
    /\ flow[1].TOCOMID = flow[2].TOCOMID
    /\ flow[1].TOCOMID # 0
    /\ flow[1].FROMCOMID \in Removed \cap coast.COMID
    /\ flow[1].FROMCOMID \notin coast.Coastline
    /\ flow[1].TOCOMID \in DOMAIN tree
    /\ tree[flow[1].TOCOMID] = <<flow[2].FROMCOMID>>
    /\ flow[2].FROMCOMID # 0

\* ------------------------------------------- persisted arrays: properties
\* Accumulation on the arrays last computed for the zone of the load.
FreshTable ==
    LET ix == fresh[loaded.zone][loaded.tbl_type]
    IN  Accumulation(ZoneTable, ix.COMIDs, ix.lengths, ix.upStream, loaded.tbl_type)

\* C13 as stated: once the six arrays of a zone have been saved,
\* createAccumTable finds the arrays it loads, for Ws and for UpCat, and
\* returns the table Accumulation gives on the arrays as they were computed.
C13_ReloadGivesFreshTable ==
    (loaded.called /\ loaded.zone \in whole) =>
        /\ ~loaded.raised
        /\ loaded.out = FreshTable

\* Some array makeNumpyVectors writes for the zone is not on the disk.
ArrayMissing(z) == \E k \in 1..6 : SavedFile(z, k) \notin DOMAIN disk

\* C19 as stated: when the loop of a run reaches a zone, the zone is computed
\* (and then saved) if one of its arrays is missing, and is left alone, no
\* file written, if they are all there.
C19_RecomputedIffArrayMissing ==
    [][(pc = "zone" /\ zoneAt \in 1..Len(inputs) /\ pc' # "stopped") =>
          /\ ArrayMissing(inputs[zoneAt]) => pc' = "saving"
          /\ ~ArrayMissing(inputs[zoneAt]) => (pc' = "zone" /\ disk' = disk /\ fresh' = fresh)]_vars

\* ------------------------------------------------ connector file: properties
\* The zones a zone receives through-COMIDs from.
UpstreamZones(z) ==
    {ConnectTbl[i].FromZone : i \in {j \in 1..Len(ConnectTbl) : ConnectTbl[j].ToZone = z}}

ComputedAlone(z, in) ==
    ZoneIndex(z, in, IF z = "14" THEN (AllCOMs \ {0}) \ {Anomaly} ELSE AllCOMs \ {0})

\* C21: the arrays makeNumpyVectors computes for a zone depend on the zone's
\* tables and the catchment universe only: they are what the run computes for
\* the zone when no zone was computed before it, whichever zones the run has
\* computed or passed over earlier.
C21_ArraysIndependentOfEarlierZones ==
    pc = "saving" => index = ComputedAlone(inputs[zoneAt], zoneInput[inputs[zoneAt]])

\* ------------------------------------------- connector table: its rows
\* No two rows of the table have the same COMID.
OneRowPerCOMID(t) ==
    \A i, j \in 1..Len(t.rows) : t.rows[i][1] = t.rows[j][1] => i = j

\* C22: after any sequence of interVPU runs, the connector file holds at most
\* one row per COMID.
C22_ConnectorHasOneRowPerCOMID ==
    Connector \in DOMAIN disk => OneRowPerCOMID(disk[Connector])

\* ------------------------------------------- appendConnectors: its rows
\* C23: every COMID of the zone's table is in the table appendConnectors
\* returns, with its own row or with the connector file's row for that COMID.
C23_AppendKeepsEveryCatchment ==
    (appended.called /\ ~appended.raised) =>
        \A i \in 1..Len(ZoneCat(appended.zone).rows) :
            LET row == ZoneCat(appended.zone).rows[i]
            IN  \E k \in 1..Len(appended.out.rows) :
                    /\ appended.out.rows[k][1] = row[1]
                    /\ \/ appended.out.rows[k] = row
                       \/ \E c \in 1..Len(disk[Connector].rows) :
                              disk[Connector].rows[c] = appended.out.rows[k]

====
